---- MODULE Spec2Model ----
(***************************************************************************)
(* Model of the speedtype text processor (src/src/main.rs and              *)
(* src/src/directory_walker/walker.rs): a sequential orchestrator that     *)
(* visits the discovered files one at a time, a pool of line workers per   *)
(* file (rayon par_bridge) that tokenize, filter and count words in one    *)
(* shared DashMap, and the CSV output written after the loop.              *)
(*                                                                         *)
(* A character is a one-character string; the two non-ASCII characters     *)
(* of the model are written "U+00E9" (two bytes in UTF-8) and "U+FFFD"     *)
(* (the replacement character, three bytes).  A byte of a file is the      *)
(* ASCII character it encodes, or one of "xC3", "xA9", "xFF".              *)
(***************************************************************************)
EXTENDS Integers, Sequences, FiniteSets, TLC

\* ------------------------------------------------------------------ bounds
NumWorkers == 2
MaxFiles == 2
NumShards == 2
BufRows == 2

\* ------------------------------------------------------- characters, bytes
UpperSeq ==
    << "A", "B", "C", "D", "E", "F", "G", "H", "I", "J", "K", "L", "M",
       "N", "O", "P", "Q", "R", "S", "T", "U", "V", "W", "X", "Y", "Z" >>

LowerSeq ==
    << "a", "b", "c", "d", "e", "f", "g", "h", "i", "j", "k", "l", "m",
       "n", "o", "p", "q", "r", "s", "t", "u", "v", "w", "x", "y", "z" >>

Range(s) == { s[i] : i \in 1..Len(s) }

is_ascii_uppercase(c) == c \in Range(UpperSeq)

is_ascii_lowercase(c) == c \in Range(LowerSeq)

is_ascii_alphabetic(c) == is_ascii_uppercase(c) \/ is_ascii_lowercase(c)

\* str::to_ascii_lowercase, one character: only 'A'..'Z' are mapped
char_to_ascii_lowercase(c) ==
    IF is_ascii_uppercase(c)
      THEN LowerSeq[CHOOSE i \in 1..Len(UpperSeq) : UpperSeq[i] = c]
      ELSE c

to_ascii_lowercase(s) == [ i \in 1..Len(s) |-> char_to_ascii_lowercase(s[i]) ]

TrimSet ==
    { "'", "\"", "-", "&", ".", ",", ";", ":", ")", "(", "]", "[", "}", "{" }

Vowels == { "a", "e", "i", "o", "u" }

RomanLetters == { "i", "v", "x", "l", "c", "d", "m" }

\* number of bytes of a character in UTF-8
Utf8Len(c) ==
    IF c = "U+FFFD" THEN 3 ELSE IF c = "U+00E9" THEN 2 ELSE 1

RECURSIVE ByteLen(_)
\* str::len: the length of a string in bytes
ByteLen(s) == IF s = << >> THEN 0 ELSE Utf8Len(Head(s)) + ByteLen(Tail(s))

NonAsciiBytes == { "xC3", "xA9", "xFF" }

RECURSIVE from_utf8_lossy_drop(_)
\* a decoding that drops the bytes of an invalid sequence
from_utf8_lossy_drop(bs) ==
    IF bs = << >> THEN << >>
    ELSE IF Head(bs) \notin NonAsciiBytes
      THEN << Head(bs) >> \o from_utf8_lossy_drop(Tail(bs))
    ELSE IF Head(bs) = "xC3" /\ Len(bs) >= 2 /\ bs[2] = "xA9"
      THEN << "U+00E9" >> \o from_utf8_lossy_drop(SubSeq(bs, 3, Len(bs)))
    ELSE from_utf8_lossy_drop(Tail(bs))

RECURSIVE from_utf8_lossy(_)
\* String::from_utf8_lossy: a valid sequence decodes to its character, every
\* other byte that starts no valid sequence becomes one U+FFFD
from_utf8_lossy(bs) ==
    IF bs = << >> THEN << >>
    ELSE IF Head(bs) \notin NonAsciiBytes
      THEN << Head(bs) >> \o from_utf8_lossy(Tail(bs))
    ELSE IF Head(bs) = "xC3" /\ Len(bs) >= 2 /\ bs[2] = "xA9"
      THEN << "U+00E9" >> \o from_utf8_lossy(SubSeq(bs, 3, Len(bs)))
    ELSE << "U+FFFD" >> \o from_utf8_lossy(Tail(bs))

RECURSIVE SplitFrom(_, _, _)
\* the pieces of s between occurrences of sep; acc is the piece being built
SplitFrom(s, sep, acc) ==
    IF s = << >> THEN << acc >>
    ELSE IF Head(s) = sep
      THEN << acc >> \o SplitFrom(Tail(s), sep, << >>)
    ELSE SplitFrom(Tail(s), sep, Append(acc, Head(s)))

\* a split that takes a carriage return off the end of every piece, as
\* str::lines does
split_strip_cr(s, sep) ==
    LET ps == SplitFrom(s, sep, << >>) IN
    [ i \in 1..Len(ps) |->
        IF ps[i] # << >> /\ ps[i][Len(ps[i])] = "\r"
          THEN SubSeq(ps[i], 1, Len(ps[i]) - 1)
          ELSE ps[i] ]

\* a split on whitespace where the separator is a space: a tab separates too
split_tabs(s, sep) ==
    SplitFrom([ i \in 1..Len(s) |->
                  IF sep = " " /\ s[i] = "\t" THEN sep ELSE s[i] ],
              sep, << >>)

\* str::split(sep): n separators give n + 1 pieces, empty pieces included
split(s, sep) == SplitFrom(s, sep, << >>)

RECURSIVE TrimStart(_)
TrimStart(s) ==
    IF s # << >> /\ Head(s) \in TrimSet THEN TrimStart(Tail(s)) ELSE s

RECURSIVE TrimEnd(_)
TrimEnd(s) ==
    IF s # << >> /\ s[Len(s)] \in TrimSet
      THEN TrimEnd(SubSeq(s, 1, Len(s) - 1))
      ELSE s

\* str::trim_matches with the 14 special symbols
trim_matches(s) == TrimEnd(TrimStart(s))

Accept(w) == [ status |-> "accept", word |-> w ]

Reject == [ status |-> "reject", word |-> << >> ]

Panic == [ status |-> "panic", word |-> << >> ]

\* the filter with the vowel rule left out
WordFilter_novowel(token) ==
    LET word == trim_matches(token) IN
    IF ByteLen(word) < 2 THEN Reject
    ELSE IF ~ \A i \in 1..Len(word) : is_ascii_alphabetic(word[i]) THEN Reject
    ELSE IF Utf8Len(word[1]) # 1 THEN Panic
    ELSE IF \E i \in 2..Len(word) : is_ascii_uppercase(word[i]) THEN Reject
    ELSE LET lower == to_ascii_lowercase(word) IN
         IF \A i \in 1..Len(lower) : lower[i] \in RomanLetters THEN Reject
         ELSE Accept(lower)

\* the filter with the uppercase rule applied to word[0..]
WordFilter_upper0(token) ==
    LET word == trim_matches(token) IN
    IF ByteLen(word) < 2 THEN Reject
    ELSE IF ~ \A i \in 1..Len(word) : is_ascii_alphabetic(word[i]) THEN Reject
    ELSE IF \E i \in 1..Len(word) : is_ascii_uppercase(word[i]) THEN Reject
    ELSE LET lower == to_ascii_lowercase(word) IN
         IF \A i \in 1..Len(lower) : lower[i] \notin Vowels THEN Reject
         ELSE IF \A i \in 1..Len(lower) : lower[i] \in RomanLetters THEN Reject
         ELSE Accept(lower)

\* the filter with the roman-numeral rule left out
WordFilter_noroman(token) ==
    LET word == trim_matches(token) IN
    IF ByteLen(word) < 2 THEN Reject
    ELSE IF ~ \A i \in 1..Len(word) : is_ascii_alphabetic(word[i]) THEN Reject
    ELSE IF Utf8Len(word[1]) # 1 THEN Panic
    ELSE IF \E i \in 2..Len(word) : is_ascii_uppercase(word[i]) THEN Reject
    ELSE LET lower == to_ascii_lowercase(word) IN
         IF \A i \in 1..Len(lower) : lower[i] \notin Vowels THEN Reject
         ELSE Accept(lower)

\* the filter with the slice taken before the alphabetic check
WordFilter_slice_first(token) ==
    LET word == trim_matches(token) IN
    IF ByteLen(word) < 2 THEN Reject
    ELSE IF Utf8Len(word[1]) # 1 THEN Panic
    ELSE IF ~ \A i \in 1..Len(word) : is_ascii_alphabetic(word[i]) THEN Reject
    ELSE IF \E i \in 2..Len(word) : is_ascii_uppercase(word[i]) THEN Reject
    ELSE LET lower == to_ascii_lowercase(word) IN
         IF \A i \in 1..Len(lower) : lower[i] \notin Vowels THEN Reject
         ELSE IF \A i \in 1..Len(lower) : lower[i] \in RomanLetters THEN Reject
         ELSE Accept(lower)

\* the body of the loop over split_words, up to the map update: the
\* cascade of early `continue`s.  word[1..] panics when byte index 1 is not
\* a character boundary.
WordFilter(token) ==
    LET word == trim_matches(token) IN
    IF ByteLen(word) < 2 THEN Reject
    ELSE IF ~ \A i \in 1..Len(word) : is_ascii_alphabetic(word[i]) THEN Reject
    ELSE IF Utf8Len(word[1]) # 1 THEN Panic
    ELSE IF \E i \in 2..Len(word) : is_ascii_uppercase(word[i]) THEN Reject
    ELSE LET lower == to_ascii_lowercase(word) IN
         IF \A i \in 1..Len(lower) : lower[i] \notin Vowels THEN Reject
         ELSE IF \A i \in 1..Len(lower) : lower[i] \in RomanLetters THEN Reject
         ELSE Accept(lower)

\* the hash of a key picks the shard of the DashMap that holds it
ShardOf(w) == (Len(w) % NumShards) + 1


I32Max == 2147483647

\* `+= 1` on the i32 value of an entry; the release build wraps around
AddOne(v) == IF v = I32Max THEN (0 - I32Max) - 1 ELSE v + 1

DigitSeq == << "0", "1", "2", "3", "4", "5", "6", "7", "8", "9" >>

RECURSIVE Decimal(_)
Decimal(n) ==
    IF n < 10 THEN << DigitSeq[n + 1] >>
    ELSE Decimal(n \div 10) \o << DigitSeq[(n % 10) + 1] >>

RECURSIVE NegDecimal(_)
\* the digits of a negative number, computed without negating it: i32::MIN
\* has no positive counterpart
NegDecimal(n) ==
    LET d == (10 - (n % 10)) % 10 IN
    IF n > 0 - 10 THEN << DigitSeq[d + 1] >>
    ELSE NegDecimal((n + d) \div 10) \o << DigitSeq[d + 1] >>

\* i32::to_string
to_string(n) == IF n < 0 THEN << "-" >> \o NegDecimal(n) ELSE Decimal(n)

\* str::ends_with
ends_with(n, suffix) ==
    /\ Len(n) >= Len(suffix)
    /\ SubSeq(n, Len(n) - Len(suffix) + 1, Len(n)) = suffix

extension == << "t", "x", "t" >>

RECURSIVE Filter(_)
\* walker::walk: the entries whose file name ends with the extension, in
\* the order of the traversal
Filter(entries) ==
    IF entries = << >> THEN << >>
    ELSE IF ends_with(Head(entries).name, extension)
      THEN << Head(entries) >> \o Filter(Tail(entries))
    ELSE Filter(Tail(entries))

walk(entries) == Filter(entries)

\* ------------------------------------------------------------ input files
NameA == << "a", ".", "t", "x", "t" >>
NameN == << "n", "o", "t", "t", "x", "t" >>
NameM == << "b", ".", "m", "d" >>

\* an Apple / I an
DocA == << "a", "n", " ", "A", "p", "p", "l", "e", "\n", "I", " ", "a", "n" >>
\* civil XVI / (aPple). to,
DocB == << "c", "i", "v", "i", "l", " ", "X", "V", "I", "\n",
           "(", "a", "P", "p", "l", "e", ")", ".", " ", "t", "o", "," >>
\* up<SP><SP>an<CR> / by<TAB>an "an"
DocC == << "u", "p", " ", " ", "a", "n", "\r", "\n",
           "b", "y", "\t", "a", "n", " ", "\"", "a", "n", "\"" >>
\* an / an, / An by
DocD == << "a", "n", "\n", "a", "n", ",", "\n", "A", "n", " ", "b", "y" >>
\* an<FF> to / <C3><A9> <C3>up
DocE == << "a", "n", "xFF", " ", "t", "o", "\n",
           "xC3", "xA9", " ", "xC3", "u", "p" >>

Corpus ==
    { [ name |-> NameA, bytes |-> DocA ],
      [ name |-> NameN, bytes |-> DocB ],
      [ name |-> NameA, bytes |-> DocC ],
      [ name |-> NameA, bytes |-> DocD ],
      [ name |-> NameA, bytes |-> DocE ],
      [ name |-> NameM, bytes |-> DocA ] }

Directories ==
    UNION { [ 1..n -> Corpus ] : n \in 0..MaxFiles }

Workers == 1..NumWorkers

Shards == 1..NumShards

\* ------------------------------------------------------------------ state
VARIABLES
    inputExists,  \* cli.input.try_exists()
    dir,          \* the entries WalkDir finds under the input path
    pc,           \* position of main
    error,        \* the error the run ended with, "none" otherwise
    txt_files,    \* the vector walker::walk returned
    idx,          \* position of the `for txt_file in txt_files` loop
    openCalls,    \* positions of the files File::open was called on
    buf,          \* the bytes read_to_end returned
    lines,        \* file position -> what is left of its split_lines iterator
    tableCreated, \* DashMap::new() has run
    words,        \* the DashMap: word -> count
    locks,        \* shard -> the worker holding its write lock, 0 if free
    pos,          \* the progress bar's position
    wpc,          \* worker -> position in the for_each closure
    wfile,        \* worker -> file position of the line it holds
    wtoks,        \* worker -> what is left of its split_words iterator
    wword,        \* worker -> the word it is counting
    wtmp,         \* worker -> the count it loaded
    incs,         \* word -> number of `+= 1` statements completed
    tableReads,   \* number of reads of the whole table (iter, clone)
    tableIters,   \* number of iterations over (word, count) pairs
    word_count,   \* words.iter().count()
    snapshot,     \* words.clone()
    emitted,      \* keys of the clone the for_each has visited
    wtrBuf,       \* rows in the csv writer's buffer
    outCreated,   \* Writer::from_path created or truncated the file
    outRows       \* rows in the output file

vars ==
    << inputExists, dir, pc, error, txt_files, idx, openCalls, buf, lines,
       tableCreated, words, locks, pos, wpc, wfile, wtoks, wword, wtmp,
       incs, tableReads, tableIters, word_count, snapshot, emitted, wtrBuf,
       outCreated, outRows >>

mainVars ==
    << pc, error, txt_files, idx, openCalls, buf, tableCreated, pos,
       tableReads, tableIters, word_count, snapshot, emitted, wtrBuf,
       outCreated, outRows >>

workerVars == << wpc, wfile, wtoks, wword, wtmp >>

inputVars == << inputExists, dir >>

EmptyMap == [ k \in { } |-> 0 ]

Init ==
    /\ inputExists \in BOOLEAN
    /\ dir \in Directories
    /\ pc = "start"
    /\ error = "none"
    /\ txt_files = << >>
    /\ idx = 0
    /\ openCalls = { }
    /\ buf = << >>
    /\ lines = EmptyMap
    /\ tableCreated = FALSE
    /\ words = EmptyMap
    /\ locks = [ s \in Shards |-> 0 ]
    /\ pos = 0
    /\ wpc = [ w \in Workers |-> "idle" ]
    /\ wfile = [ w \in Workers |-> 0 ]
    /\ wtoks = [ w \in Workers |-> << >> ]
    /\ wword = [ w \in Workers |-> << >> ]
    /\ wtmp = [ w \in Workers |-> 0 ]
    /\ incs = EmptyMap
    /\ tableReads = 0
    /\ tableIters = 0
    /\ word_count = 0
    /\ snapshot = EmptyMap
    /\ emitted = { }
    /\ wtrBuf = << >>
    /\ outCreated = FALSE
    /\ outRows = << >>


\* --------------------------------------------------------------- helpers
Get(m, k) == IF k \in DOMAIN m THEN m[k] ELSE 0

\* an update that keeps only the updated key
Put_replace(m, k, v) == [ x \in { k } |-> v ]

Put(m, k, v) == [ x \in DOMAIN m \cup { k } |-> IF x = k THEN v ELSE m[x] ]

Without(m, k) == [ x \in DOMAIN m \ { k } |-> m[x] ]

Running == pc \notin { "aborted", "panicked", "done" }

\* the error is recorded and main goes on to the output
Abort_goes_on(kind) ==
    /\ pc' = "count"
    /\ error' = kind

\* std::process::abort(): the process ends at once, nothing is unwound
Abort(kind) ==
    /\ pc' = "aborted"
    /\ error' = kind

\* ------------------------------------------------------------------- main
\* lines 57-61
CheckInput ==
    /\ pc = "start"
    /\ IF inputExists
         THEN pc' = "walk" /\ error' = error
         ELSE Abort("InputPathNotFound")
    /\ UNCHANGED << txt_files, idx, openCalls, buf, tableCreated, pos,
                    tableReads, tableIters, word_count, snapshot, emitted,
                    wtrBuf, outCreated, outRows >>
    /\ UNCHANGED << inputVars, workerVars, lines, words, locks, incs >>

\* line 83
Walk ==
    /\ pc = "walk"
    /\ txt_files' = walk(dir)
    /\ pc' = "check_count"
    /\ UNCHANGED << error, idx, openCalls, buf, tableCreated, pos,
                    tableReads, tableIters, word_count, snapshot, emitted,
                    wtrBuf, outCreated, outRows >>
    /\ UNCHANGED << inputVars, workerVars, lines, words, locks, incs >>

\* the empty vector is not checked: the loop runs zero times
CheckCount_unchecked ==
    /\ pc = "check_count"
    /\ tableCreated' = TRUE
    /\ idx' = 1
    /\ pc' = IF Len(txt_files) = 0 THEN "count" ELSE "open"
    /\ UNCHANGED << error, txt_files, openCalls, buf, pos, tableReads,
                    tableIters, word_count, snapshot, emitted, wtrBuf,
                    outCreated, outRows >>
    /\ UNCHANGED << inputVars, workerVars, lines, words, locks, incs >>

\* lines 84-98: abort on an empty vector, else create the map and enter
\* the loop
CheckCount ==
    /\ pc = "check_count"
    /\ IF Len(txt_files) = 0
         THEN /\ Abort("NoMatchingFiles")
              /\ UNCHANGED << tableCreated, idx >>
         ELSE /\ tableCreated' = TRUE
              /\ idx' = 1
              /\ pc' = "open"
              /\ error' = error
    /\ UNCHANGED << txt_files, openCalls, buf, pos, tableReads, tableIters,
                    word_count, snapshot, emitted, wtrBuf, outCreated,
                    outRows >>
    /\ UNCHANGED << inputVars, workerVars, lines, words, locks, incs >>

\* lines 114-120
OpenFile ==
    /\ pc = "open"
    /\ openCalls' = openCalls \cup { idx }
    /\ \E ok \in BOOLEAN :
         IF ok THEN pc' = "read" /\ error' = error
               ELSE Abort("FileOpenFailure")
    /\ UNCHANGED << txt_files, idx, buf, tableCreated, pos, tableReads,
                    tableIters, word_count, snapshot, emitted, wtrBuf,
                    outCreated, outRows >>
    /\ UNCHANGED << inputVars, workerVars, lines, words, locks, incs >>

\* lines 122-132
ReadFile ==
    /\ pc = "read"
    /\ \E ok \in BOOLEAN :
         IF ok THEN /\ buf' = txt_files[idx].bytes
                    /\ pc' = "split"
                    /\ error' = error
               ELSE /\ Abort("FileReadFailure")
                    /\ buf' = buf
    /\ UNCHANGED << txt_files, idx, openCalls, tableCreated, pos, tableReads,
                    tableIters, word_count, snapshot, emitted, wtrBuf,
                    outCreated, outRows >>
    /\ UNCHANGED << inputVars, workerVars, lines, words, locks, incs >>

\* lines 135-139: decode, split into lines, hand the iterator to the pool
ForEach ==
    /\ pc = "split"
    /\ lines' = Put(lines, idx, split(from_utf8_lossy(buf), "\n"))
    /\ buf' = << >>
    /\ pc' = "for_each"
    /\ UNCHANGED << error, txt_files, idx, openCalls, tableCreated, pos,
                    tableReads, tableIters, word_count, snapshot, emitted,
                    wtrBuf, outCreated, outRows >>
    /\ UNCHANGED << inputVars, workerVars, words, locks, incs >>

\* for_each that returns without waiting
JoinReady_nowait(f) == TRUE

\* for_each that returns as soon as the iterator is drained
JoinReady_drained(f) == lines[f] = << >>

\* for_each returns when the iterator is drained and every closure call
\* has returned
JoinReady(f) ==
    /\ lines[f] = << >>
    /\ \A w \in Workers : wpc[w] = "idle"

\* the loop leaves after its first pass
AfterFile_first(i) == "count"

\* line 113: the loop goes on while the vector has a next file
AfterFile(i) == IF i = Len(txt_files) THEN "count" ELSE "open"

\* lines 184-187: for_each returns, the content is dropped, pb.inc(1)
Join ==
    /\ pc = "for_each"
    /\ JoinReady(idx)
    /\ lines' = Without(lines, idx)
    /\ pos' = pos + 1
    /\ idx' = idx + 1
    /\ pc' = AfterFile(idx)
    /\ UNCHANGED << error, txt_files, openCalls, buf, tableCreated,
                    tableReads, tableIters, word_count, snapshot, emitted,
                    wtrBuf, outCreated, outRows >>
    /\ UNCHANGED << inputVars, workerVars, words, locks, incs >>

\* line 192
CountWords ==
    /\ pc = "count"
    /\ word_count' = Cardinality(DOMAIN words)
    /\ tableReads' = tableReads + 1
    /\ tableIters' = tableIters + 1
    /\ pc' = "open_writer"
    /\ UNCHANGED << error, txt_files, idx, openCalls, buf, tableCreated, pos,
                    snapshot, emitted, wtrBuf, outCreated, outRows >>
    /\ UNCHANGED << inputVars, workerVars, lines, words, locks, incs >>

\* line 201: Writer::from_path creates or truncates the file; expect
\* panics when it cannot
OpenWriter ==
    /\ pc = "open_writer"
    /\ \E ok \in BOOLEAN :
         IF ok THEN /\ outCreated' = TRUE
                    /\ outRows' = << >>
                    /\ pc' = "clone"
                    /\ error' = error
               ELSE /\ pc' = "panicked"
                    /\ error' = "OutputWriteFailure"
                    /\ UNCHANGED << outCreated, outRows >>
    /\ UNCHANGED << txt_files, idx, openCalls, buf, tableCreated, pos,
                    tableReads, tableIters, word_count, snapshot, emitted,
                    wtrBuf >>
    /\ UNCHANGED << inputVars, workerVars, lines, words, locks, incs >>

\* line 203: words.clone().iter()
CloneTable ==
    /\ pc = "clone"
    /\ snapshot' = words
    /\ emitted' = { }
    /\ tableReads' = tableReads + 1
    /\ tableIters' = tableIters + 1
    /\ pc' = IF DOMAIN words = { } THEN "drop" ELSE "write"
    /\ UNCHANGED << error, txt_files, idx, openCalls, buf, tableCreated, pos,
                    word_count, wtrBuf, outCreated, outRows >>
    /\ UNCHANGED << inputVars, workerVars, lines, words, locks, incs >>

\* what a flush of the writer's buffer leaves in the file: all buffered
\* rows, or on an I/O error the n first of them
Flushed(ok, n) ==
    IF ok THEN outRows \o wtrBuf ELSE outRows \o SubSeq(wtrBuf, 1, n)

\* lines 203-206: one call of the for_each closure.  write_record puts the
\* row in the writer's buffer and flushes the buffer to the file first
\* when it is full; expect panics when that flush fails.
WriteRecord ==
    /\ pc = "write"
    /\ \E k \in DOMAIN snapshot \ emitted :
         LET row == << k, to_string(snapshot[k]) >> IN
         IF Len(wtrBuf) < BufRows
           THEN /\ wtrBuf' = Append(wtrBuf, row)
                /\ emitted' = emitted \cup { k }
                /\ pc' = IF emitted' = DOMAIN snapshot THEN "drop" ELSE "write"
                /\ UNCHANGED << outRows, error >>
           ELSE \E ok \in BOOLEAN, n \in 0..(Len(wtrBuf) - 1) :
                  /\ outRows' = Flushed(ok, n)
                  /\ IF ok
                       THEN /\ wtrBuf' = << row >>
                            /\ emitted' = emitted \cup { k }
                            /\ pc' = IF emitted' = DOMAIN snapshot
                                       THEN "drop" ELSE "write"
                            /\ error' = error
                       ELSE /\ pc' = "unwind"
                            /\ error' = "OutputWriteFailure"
                            /\ UNCHANGED << wtrBuf, emitted >>
    /\ UNCHANGED << txt_files, idx, openCalls, buf, tableCreated, pos,
                    tableReads, tableIters, word_count, snapshot,
                    outCreated >>
    /\ UNCHANGED << inputVars, workerVars, lines, words, locks, incs >>

\* line 209: main returns and the writer is dropped; its Drop flushes the
\* buffer and ignores the result
DropWriter ==
    /\ pc = "drop"
    /\ \E ok \in BOOLEAN, n \in 0..Len(wtrBuf) :
         /\ ~ ok => n < Len(wtrBuf)
         /\ outRows' = Flushed(ok, n)
    /\ wtrBuf' = << >>
    /\ pc' = "done"
    /\ UNCHANGED << error, txt_files, idx, openCalls, buf, tableCreated, pos,
                    tableReads, tableIters, word_count, snapshot, emitted,
                    outCreated >>
    /\ UNCHANGED << inputVars, workerVars, lines, words, locks, incs >>

\* lines 204-205: the panic of expect unwinds main, which drops the writer
Unwind ==
    /\ pc = "unwind"
    /\ \E ok \in BOOLEAN, n \in 0..(Len(wtrBuf) - 1) :
         outRows' = Flushed(ok, n)
    /\ wtrBuf' = << >>
    /\ pc' = "panicked"
    /\ UNCHANGED << error, txt_files, idx, openCalls, buf, tableCreated, pos,
                    tableReads, tableIters, word_count, snapshot, emitted,
                    outCreated >>
    /\ UNCHANGED << inputVars, workerVars, lines, words, locks, incs >>


\* ---------------------------------------------------------------- workers
\* `break` in place of going on with the next token
AfterWord_break(rest) == "idle"

\* what follows one pass of the loop over split_words
AfterWord(rest) == IF rest = << >> THEN "idle" ELSE "words"

\* an iterator that hands a line out and keeps it
NextLine_peek(w) ==
    /\ Running
    /\ wpc[w] = "idle"
    /\ \E f \in DOMAIN lines :
         /\ lines[f] # << >>
         /\ wtoks' = [ wtoks EXCEPT ![w] = split(Head(lines[f]), " ") ]
         /\ wfile' = [ wfile EXCEPT ![w] = f ]
    /\ wpc' = [ wpc EXCEPT ![w] = "words" ]
    /\ UNCHANGED << inputVars, mainVars, words, locks, incs, wword, wtmp,
                    lines >>

\* line 139-140: a pool thread takes the next line of the iterator that
\* par_bridge shares and splits it on the space character
NextLine(w) ==
    /\ Running
    /\ wpc[w] = "idle"
    /\ \E f \in DOMAIN lines :
         /\ lines[f] # << >>
         /\ wtoks' = [ wtoks EXCEPT ![w] = split(Head(lines[f]), " ") ]
         /\ lines' = [ lines EXCEPT ![f] = Tail(lines[f]) ]
         /\ wfile' = [ wfile EXCEPT ![w] = f ]
    /\ wpc' = [ wpc EXCEPT ![w] = "words" ]
    /\ UNCHANGED << inputVars, mainVars, words, locks, incs, wword, wtmp >>

\* the line a worker holds is dropped when its closure call returns
LineAfter(w, rest) ==
    [ wfile EXCEPT ![w] = IF rest = << >> THEN 0 ELSE wfile[w] ]

\* lines 142-180: the next token goes through the filter
NextWord(w) ==
    /\ Running
    /\ wpc[w] = "words"
    /\ LET r == WordFilter(Head(wtoks[w]))
           rest == Tail(wtoks[w])
       IN  /\ wtoks' = [ wtoks EXCEPT ![w] = rest ]
           /\ CASE r.status = "reject" ->
                     /\ wpc' = [ wpc EXCEPT ![w] = AfterWord(rest) ]
                     /\ wfile' = LineAfter(w, rest)
                     /\ UNCHANGED << wword, pc, error >>
                [] r.status = "accept" ->
                     /\ wpc' = [ wpc EXCEPT ![w] = "entry" ]
                     /\ wword' = [ wword EXCEPT ![w] = r.word ]
                     /\ UNCHANGED << wfile, pc, error >>
                [] r.status = "panic" ->
                     /\ pc' = "panicked"
                     /\ error' = "WorkerPanic"
                     /\ UNCHANGED << wpc, wword, wfile >>
    /\ UNCHANGED << txt_files, idx, openCalls, buf, tableCreated, pos,
                    tableReads, tableIters, word_count, snapshot, emitted,
                    wtrBuf, outCreated, outRows >>
    /\ UNCHANGED << inputVars, lines, words, locks, incs, wtmp >>

\* a shard whose lock excludes no one
CanLock_unguarded(s) == TRUE

\* the write lock of a shard is taken only when no one holds it
CanLock(s) == locks[s] = 0

\* line 182, words.entry(word): takes the write lock of the key's shard
Entry(w) ==
    /\ Running
    /\ wpc[w] = "entry"
    /\ CanLock(ShardOf(wword[w]))
    /\ locks' = [ locks EXCEPT ![ShardOf(wword[w])] = w ]
    /\ wpc' = [ wpc EXCEPT ![w] = "or_insert" ]
    /\ UNCHANGED << inputVars, mainVars, lines, words, incs, wfile, wtoks,
                    wword, wtmp >>

\* line 182, .or_insert(0): a vacant entry gets the value 0
OrInsert(w) ==
    /\ Running
    /\ wpc[w] = "or_insert"
    /\ words' = IF wword[w] \in DOMAIN words
                  THEN words
                  ELSE Put(words, wword[w], 0)
    /\ wpc' = [ wpc EXCEPT ![w] = "load" ]
    /\ UNCHANGED << inputVars, mainVars, lines, locks, incs, wfile, wtoks,
                    wword, wtmp >>

\* line 182, `+= 1`: the read of the value
Load(w) ==
    /\ Running
    /\ wpc[w] = "load"
    /\ wtmp' = [ wtmp EXCEPT ![w] = words[wword[w]] ]
    /\ wpc' = [ wpc EXCEPT ![w] = "store" ]
    /\ UNCHANGED << inputVars, mainVars, lines, words, locks, incs, wfile,
                    wtoks, wword >>

\* a store whose guard on the shard is never dropped
Store_keeps_lock(w) ==
    /\ Running
    /\ wpc[w] = "store"
    /\ \E checked \in IF wtmp[w] = I32Max THEN BOOLEAN ELSE { FALSE } :
         IF checked
           THEN /\ pc' = "panicked"
                /\ error' = "CounterOverflow"
                /\ UNCHANGED << words, locks, incs, wpc, wfile, wword, wtmp >>
           ELSE /\ words' = Put(words, wword[w], AddOne(wtmp[w]))
                /\ locks' = locks
                /\ incs' = Put(incs, wword[w], Get(incs, wword[w]) + 1)
                /\ wpc' = [ wpc EXCEPT ![w] = AfterWord(wtoks[w]) ]
                /\ wfile' = LineAfter(w, wtoks[w])
                /\ wword' = [ wword EXCEPT ![w] = << >> ]
                /\ wtmp' = [ wtmp EXCEPT ![w] = 0 ]
                /\ UNCHANGED << pc, error >>
    /\ UNCHANGED << txt_files, idx, openCalls, buf, tableCreated, pos,
                    tableReads, tableIters, word_count, snapshot, emitted,
                    wtrBuf, outCreated, outRows >>
    /\ UNCHANGED << inputVars, lines, wtoks >>

\* line 182, `+= 1`: the write of the value; the entry's guard is dropped
\* at the end of the statement, which releases the shard, and the word
\* goes out of scope at the end of the loop body.  At i32::MAX the addition
\* overflows: a build without overflow checks wraps around, a build with
\* them panics, and the panic of a pool thread ends main.
Store(w) ==
    /\ Running
    /\ wpc[w] = "store"
    /\ \E checked \in IF wtmp[w] = I32Max THEN BOOLEAN ELSE { FALSE } :
         IF checked
           THEN /\ pc' = "panicked"
                /\ error' = "CounterOverflow"
                /\ UNCHANGED << words, locks, incs, wpc, wfile, wword, wtmp >>
           ELSE /\ words' = Put(words, wword[w], AddOne(wtmp[w]))
                /\ locks' = [ locks EXCEPT ![ShardOf(wword[w])] = 0 ]
                /\ incs' = Put(incs, wword[w], Get(incs, wword[w]) + 1)
                /\ wpc' = [ wpc EXCEPT ![w] = AfterWord(wtoks[w]) ]
                /\ wfile' = LineAfter(w, wtoks[w])
                /\ wword' = [ wword EXCEPT ![w] = << >> ]
                /\ wtmp' = [ wtmp EXCEPT ![w] = 0 ]
                /\ UNCHANGED << pc, error >>
    /\ UNCHANGED << txt_files, idx, openCalls, buf, tableCreated, pos,
                    tableReads, tableIters, word_count, snapshot, emitted,
                    wtrBuf, outCreated, outRows >>
    /\ UNCHANGED << inputVars, lines, wtoks >>

\* ----------------------------------------------------------- specification
Next ==
    \/ CheckInput
    \/ Walk
    \/ CheckCount
    \/ OpenFile
    \/ ReadFile
    \/ ForEach
    \/ Join
    \/ CountWords
    \/ OpenWriter
    \/ CloneTable
    \/ WriteRecord
    \/ DropWriter
    \/ Unwind
    \/ \E w \in Workers : NextLine(w)
    \/ \E w \in Workers : NextWord(w)
    \/ \E w \in Workers : Entry(w)
    \/ \E w \in Workers : OrInsert(w)
    \/ \E w \in Workers : Load(w)
    \/ \E w \in Workers : Store(w)

Spec == Init /\ [][Next]_vars

\* the steps of the main thread
MainThread ==
    \/ CheckInput
    \/ Walk
    \/ CheckCount
    \/ OpenFile
    \/ ReadFile
    \/ ForEach
    \/ Join
    \/ CountWords
    \/ OpenWriter
    \/ CloneTable
    \/ WriteRecord
    \/ DropWriter
    \/ Unwind

\* the steps of one thread of the pool
WorkerThread(w) ==
    \/ NextLine(w)
    \/ NextWord(w)
    \/ Entry(w)
    \/ OrInsert(w)
    \/ Load(w)
    \/ Store(w)

\* a thread that can go on is scheduled in the end
FairSpec ==
    /\ Spec
    /\ WF_vars(MainThread)
    /\ \A w \in Workers : WF_vars(WorkerThread(w))

\* --------------------------------------------------------------- typing
TypeOK ==
    /\ pc \in { "start", "walk", "check_count", "open", "read", "split",
                "for_each", "count", "open_writer", "clone", "write", "drop",
                "unwind", "done", "aborted", "panicked" }
    /\ error \in { "none", "InputPathNotFound", "NoMatchingFiles",
                   "FileOpenFailure", "FileReadFailure",
                   "OutputWriteFailure", "WorkerPanic",
                   "CounterOverflow" }
    /\ \A w \in Workers :
         wpc[w] \in { "idle", "words", "entry", "or_insert", "load", "store" }
    /\ \A s \in Shards : locks[s] \in Workers \cup { 0 }
    /\ \A k \in DOMAIN words : words[k] \in Int


\* ------------------------------------------------------------ definitions
\* the token candidates of a file: its text split on "\n", each line split
\* on " "
TokensOf(bytes) ==
    LET ls == split(from_utf8_lossy(bytes), "\n")
    IN  [ i \in 1..Len(ls) |-> split(ls[i], " ") ]

\* positions <<file, line, token>> of every token candidate of the run
TokenPositions ==
    UNION { LET toks == TokensOf(txt_files[f].bytes)
            IN  UNION { { << f, i, j >> : j \in 1..Len(toks[i]) } :
                        i \in 1..Len(toks) } :
            f \in 1..Len(txt_files) }

TokenAt(p) == TokensOf(txt_files[p[1]].bytes)[p[2]][p[3]]

\* number of token occurrences the filter accepts and normalizes to w
Occurrences(w) ==
    Cardinality({ p \in TokenPositions : WordFilter(TokenAt(p)) = Accept(w) })

AcceptedWords ==
    { WordFilter(TokenAt(p)).word :
        p \in { q \in TokenPositions :
                  WordFilter(TokenAt(q)).status = "accept" } }

ExpectedTable == [ w \in AcceptedWords |-> Occurrences(w) ]

Busy(w) == wpc[w] # "idle"

InputConsumed ==
    /\ idx > Len(txt_files)
    /\ DOMAIN lines = { }
    /\ \A w \in Workers : ~ Busy(w)

\* ---------------------------------------------------------------- claims
\* C1: when the run completes, the count stored for each word is the
\* number of token occurrences of all files that the filter accepts and
\* normalizes to that word, and no other word is in the table
C1_FinalCounts == pc = "done" => words = ExpectedTable

C1_Witness ==
    /\ pc = "done"
    /\ Len(txt_files) = 2
    /\ \E k \in DOMAIN words : words[k] >= 3

\* C2: no increment of the shared table is lost: at every moment the count
\* of a word is the number of `+= 1` statements completed on it, also when
\* workers contend for a word that is not in the table yet
C2_NoLostUpdate ==
    \A k \in DOMAIN words \cup DOMAIN incs : Get(words, k) = Get(incs, k)

C2_Witness ==
    \E w1 \in Workers, w2 \in Workers :
      /\ w1 # w2
      /\ wpc[w1] = "or_insert"
      /\ wpc[w2] = "entry"
      /\ wword[w1] = wword[w2]
      /\ wword[w1] \notin DOMAIN words

Normalized(k) ==
    /\ Len(k) >= 2
    /\ \A i \in 1..Len(k) : is_ascii_lowercase(k[i])
    /\ \E i \in 1..Len(k) : k[i] \in Vowels
    /\ \E i \in 1..Len(k) : k[i] \notin RomanLetters

\* C3: every key of the table is a normalized word: at least 2 characters,
\* lowercase ASCII letters only, a vowel, not only roman-numeral letters
C3_KeysNormalized == \A k \in DOMAIN words : Normalized(k)

C3_Witness ==
    /\ pc = "done"
    /\ \E f \in 1..Len(txt_files) : txt_files[f].bytes = DocC
    /\ DOMAIN words # { }


\* the characters of s that trimming keeps: what lies between the first
\* and the last character outside the 14 trimmed ones
Trimmed(s) ==
    LET keep == { i \in 1..Len(s) : s[i] \notin TrimSet }
    IN  IF keep = { } THEN << >>
        ELSE SubSeq(s, CHOOSE i \in keep : \A j \in keep : i <= j,
                       CHOOSE i \in keep : \A j \in keep : j <= i)

\* the ordered rule chain of the filter: the first rule that rejects, or
\* "accept"
RuleChain(token) ==
    LET t == Trimmed(token)
        l == to_ascii_lowercase(t)
    IN  IF Len(t) < 2 THEN "length"
        ELSE IF \E i \in 1..Len(t) : ~ is_ascii_alphabetic(t[i]) THEN "alpha"
        ELSE IF \E i \in 2..Len(t) : is_ascii_uppercase(t[i]) THEN "uppercase"
        ELSE IF ~ \E i \in 1..Len(l) : l[i] \in Vowels THEN "vowel"
        ELSE IF \A i \in 1..Len(l) : l[i] \in RomanLetters THEN "roman"
        ELSE "accept"

\* worker w passes its next token through the filter in this step
Filters(w) == wpc[w] = "words" /\ wtoks'[w] # wtoks[w]

\* the step counts the lowercased, trimmed token
Counts(w, token) ==
    /\ wpc'[w] = "entry"
    /\ wword'[w] = to_ascii_lowercase(Trimmed(token))

\* the step skips the token silently
Skips(w) ==
    /\ wpc'[w] \in { "idle", "words" }
    /\ words' = words
    /\ pc' = pc

\* C4: the outcome of the filter on every token is that of the ordered
\* rule chain (trim, length, alpha-only, inner uppercase, lowercase, vowel,
\* roman letters); "an" is accepted as "an", "Apple" as "apple", "I" is
\* rejected
C4_RuleChain ==
    [][ \A w \in Workers :
          Filters(w) =>
            LET token == Head(wtoks[w]) IN
            /\ IF RuleChain(token) = "accept"
                 THEN Counts(w, token) ELSE Skips(w)
            /\ token = << "a", "n" >> =>
                 wpc'[w] = "entry" /\ wword'[w] = << "a", "n" >>
            /\ token = << "A", "p", "p", "l", "e" >> =>
                 wpc'[w] = "entry" /\ wword'[w] = << "a", "p", "p", "l", "e" >>
            /\ token = << "I" >> => Skips(w) ]_vars

C4_Witness ==
    \E w \in Workers :
      /\ wpc[w] = "entry"
      /\ wword[w] = << "a", "p", "p", "l", "e" >>
      /\ wtoks[w] = << >>

AllRoman(s) == \A i \in 1..Len(s) : s[i] \in RomanLetters

Incrementing(w) == wpc[w] \in { "entry", "or_insert", "load", "store" }

\* C5: a token whose trimmed, lowercased form has only roman-numeral
\* letters is skipped and never counted: no such word is a key or is being
\* incremented, "civil" and "XVI" included
C5_RomanRejected ==
    /\ [][ \A w \in Workers :
             (Filters(w) /\ AllRoman(to_ascii_lowercase(Trimmed(Head(wtoks[w])))))
               => Skips(w) ]_vars
    /\ [](\A w \in Workers : Incrementing(w) => ~ AllRoman(wword[w]))
    /\ [](\A k \in DOMAIN words : ~ AllRoman(k))

C5_Witness ==
    /\ pc = "done"
    /\ Len(txt_files) = 1
    /\ txt_files[1].bytes = DocB
    /\ DOMAIN words = { << "t", "o" >> }


IngestorFailed == error \in { "FileOpenFailure", "FileReadFailure" }

\* C6: a failure to open or read the k-th file ends the run at once: no
\* later file is opened, no worker runs, no step follows (so no further
\* increment), and the output file is never created or written
C6_IngestorFailureAborts ==
    /\ [](IngestorFailed =>
            /\ pc = "aborted"
            /\ openCalls = 1..idx
            /\ \A w \in Workers : ~ Busy(w)
            /\ ~ outCreated
            /\ outRows = << >>
            /\ wtrBuf = << >>)
    /\ [][ IngestorFailed => UNCHANGED vars ]_vars

C6_Witness ==
    /\ error = "FileReadFailure"
    /\ idx = 2
    /\ pos = 1
    /\ DOMAIN words # { }

Failed == pc \in { "aborted", "panicked" }

\* C7: a run that ends in an error leaves no result row in the output,
\* also when the error is a failure while writing a row
C7_NoPartialOutput == Failed => outRows = << >>

C9_ReadsAfterWorkers ==
    [][ /\ (tableReads' > tableReads \/ emitted' # emitted) => InputConsumed
        /\ words' # words => tableReads = 0 ]_vars

C9_Witness ==
    /\ pc = "write"
    /\ tableReads = 2
    /\ Len(txt_files) = 2
    /\ \E k \in DOMAIN words : words[k] >= 2

\* C10: files are processed one at a time: a worker that holds a line
\* holds a line of the file the loop is at, during that file's for_each;
\* the only live line iterator is that file's; no file is opened or read
\* while a worker runs
C10_OneFileAtATime ==
    /\ \A w \in Workers : Busy(w) => wfile[w] = idx /\ pc = "for_each"
    /\ DOMAIN lines \subseteq { idx }
    /\ DOMAIN lines # { } => pc = "for_each"
    /\ openCalls \subseteq 1..idx

C10_Witness ==
    /\ idx = 2
    /\ \A w \in Workers : Busy(w)
    /\ DOMAIN words # { }


\* C11: the table only grows: in every step every key stays, and the count
\* of every word (0 for a word not in the table) stays or goes up by
\* exactly 1
C11_OnlyGrows ==
    [][ /\ DOMAIN words \subseteq DOMAIN words'
        /\ \A k \in DOMAIN words' :
             \/ Get(words', k) = Get(words, k)
             \/ Get(words', k) = Get(words, k) + 1 ]_vars

C11_Witness ==
    /\ Cardinality(DOMAIN words) >= 3
    /\ \E k \in DOMAIN words : words[k] >= 3

\* C12: when no file matches the extension the run fails before a file is
\* opened, before the table is created and before the writer is opened,
\* and nothing follows; a run gets past the check only with a file
C12_NoMatchingFiles ==
    /\ [](error = "NoMatchingFiles" =>
            /\ pc = "aborted"
            /\ txt_files = << >>
            /\ openCalls = { }
            /\ ~ tableCreated
            /\ words = EmptyMap
            /\ incs = EmptyMap
            /\ ~ outCreated
            /\ outRows = << >>)
    /\ [](pc \notin { "start", "walk", "check_count", "aborted" } =>
            txt_files # << >>)
    /\ [][ error = "NoMatchingFiles" => UNCHANGED vars ]_vars

C12_Witness ==
    /\ error = "NoMatchingFiles"
    /\ Len(dir) = 2


RowsOf(table) == { << k, to_string(table[k]) >> : k \in DOMAIN table }

\* C13: on a successful run the rows of the output are exactly the entries
\* of the final table, one row per word: the word, then its count in
\* decimal
C13_RowsAreTable ==
    (pc = "done" /\ error = "none") =>
      /\ Range(outRows) = RowsOf(words)
      /\ Len(outRows) = Cardinality(DOMAIN words)


RECURSIVE JoinWith(_, _)
\* the pieces put together again with sep between them
JoinWith(pieces, sep) ==
    IF Len(pieces) = 1 THEN pieces[1]
    ELSE pieces[1] \o << sep >> \o JoinWith(Tail(pieces), sep)

\* byte i of bs belongs to no valid sequence: xFF, xC3 without xA9 after
\* it, xA9 without xC3 before it
InvalidAt(bs, i) ==
    \/ bs[i] = "xFF"
    \/ bs[i] = "xC3" /\ ~ (i < Len(bs) /\ bs[i + 1] = "xA9")
    \/ bs[i] = "xA9" /\ ~ (i > 1 /\ bs[i - 1] = "xC3")

IsAscii(s) == \A i \in 1..Len(s) : s[i] \notin NonAsciiBytes

\* the tokens of the raw bytes of file f, split before any decoding
ByteTokens(f) ==
    LET ls == split(txt_files[f].bytes, "\n")
    IN  [ i \in 1..Len(ls) |-> split(ls[i], " ") ]

BytePositions ==
    UNION { LET toks == ByteTokens(f)
            IN  UNION { { << f, i, j >> : j \in 1..Len(toks[i]) } :
                        i \in 1..Len(toks) } :
            f \in 1..Len(txt_files) }

\* the tokens made of valid ASCII bytes only that the filter accepts; a
\* token with another byte holds a placeholder or a non-ASCII character
CleanAccepted ==
    { p \in BytePositions :
        LET t == ByteTokens(p[1])[p[2]][p[3]]
        IN  IsAscii(t) /\ WordFilter(t).status = "accept" }

CleanWord(p) == WordFilter(ByteTokens(p[1])[p[2]][p[3]]).word

CleanTable ==
    [ w \in { CleanWord(p) : p \in CleanAccepted } |->
        Cardinality({ p \in CleanAccepted : CleanWord(p) = w }) ]

IsPlaceholder(c) == c = "U+FFFD"

IsAsciiChar(c) == Utf8Len(c) = 1

IsAsciiByte(b) == b \notin NonAsciiBytes

\* C14: decoding never fails: every byte of an invalid sequence becomes one
\* placeholder and the ASCII bytes stay as they are, in order; at the end
\* the table holds exactly the accepted tokens made of valid bytes
C14_LossyDecoding ==
    /\ [][ pc = "split" =>
             /\ pc' = "for_each"
             /\ error' = "none"
             /\ LET text == JoinWith(lines'[idx], "\n") IN
                /\ Len(SelectSeq(text, IsPlaceholder))
                     = Cardinality({ i \in 1..Len(buf) : InvalidAt(buf, i) })
                /\ SelectSeq(text, IsAsciiChar) = SelectSeq(buf, IsAsciiByte)
          ]_vars
    /\ [](pc = "done" => words = CleanTable)

C14_Witness ==
    /\ pc = "done"
    /\ Len(txt_files) = 2
    /\ txt_files[1].bytes = DocE
    /\ txt_files[2].bytes = DocC
    /\ words = (<< "t", "o" >> :> 1) @@ (<< "u", "p" >> :> 1)
                 @@ (<< "a", "n" >> :> 1)


\* ------------------------------------------------- counters near i32::MAX
\* The state of a run that has come to the files of dir after files that
\* held I32Max - 1 accepted occurrences of "an" between them: the loop is
\* about to open the first file of dir, idx and pos count from that file,
\* and incs counts the `+= 1` statements completed from this state on.
InitNearMax ==
    /\ inputExists = TRUE
    /\ dir \in { d \in Directories : walk(d) # << >> }
    /\ pc = "open"
    /\ error = "none"
    /\ txt_files = walk(dir)
    /\ idx = 1
    /\ openCalls = { }
    /\ buf = << >>
    /\ lines = EmptyMap
    /\ tableCreated = TRUE
    /\ words = (<< "a", "n" >> :> (I32Max - 1))
    /\ locks = [ s \in Shards |-> 0 ]
    /\ pos = 0
    /\ wpc = [ w \in Workers |-> "idle" ]
    /\ wfile = [ w \in Workers |-> 0 ]
    /\ wtoks = [ w \in Workers |-> << >> ]
    /\ wword = [ w \in Workers |-> << >> ]
    /\ wtmp = [ w \in Workers |-> 0 ]
    /\ incs = EmptyMap
    /\ tableReads = 0
    /\ tableIters = 0
    /\ word_count = 0
    /\ snapshot = EmptyMap
    /\ emitted = { }
    /\ wtrBuf = << >>
    /\ outCreated = FALSE
    /\ outRows = << >>

\* the steps of main from the loop on, and those of the workers
NextInLoop ==
    \/ OpenFile
    \/ ReadFile
    \/ ForEach
    \/ Join
    \/ CountWords
    \/ OpenWriter
    \/ CloneTable
    \/ WriteRecord
    \/ DropWriter
    \/ Unwind
    \/ \E w \in Workers : NextLine(w)
    \/ \E w \in Workers : NextWord(w)
    \/ \E w \in Workers : Entry(w)
    \/ \E w \in Workers : OrInsert(w)
    \/ \E w \in Workers : Load(w)
    \/ \E w \in Workers : Store(w)

SpecNearMax == InitNearMax /\ [][NextInLoop]_vars

\* C15: a count is an unsigned number of occurrences: it is never
\* negative, and no increment fails or wraps around at the limit of the
\* counter's machine integer
C15_CountsUnsigned ==
    /\ \A k \in DOMAIN words : words[k] >= 0
    /\ error # "CounterOverflow"


\* pieces are what s splits into on sep and on nothing else
SplitsOn(pieces, s, sep) ==
    /\ Len(pieces) >= 1
    /\ JoinWith(pieces, sep) = s
    /\ \A i \in 1..Len(pieces) : sep \notin Range(pieces[i])

EndsWithCR(s) == s # << >> /\ s[Len(s)] = "\r"

\* worker w takes a line in this step
Takes(w) == wpc[w] = "idle" /\ wpc'[w] = "words"

\* the line worker w takes in this step
TakenLine(w) == Head(lines[wfile'[w]])

\* C16: the text is split on "\n" only; a carriage return before the
\* newline stays at the end of the line and of its last token, and a token
\* that ends with a carriage return is skipped
C16_CarriageReturnKept ==
    /\ [][ pc = "split" =>
             SplitsOn(lines'[idx], from_utf8_lossy(buf), "\n") ]_vars
    /\ [][ \A w \in Workers :
             (Takes(w) /\ EndsWithCR(TakenLine(w)))
               => EndsWithCR(wtoks'[w][Len(wtoks'[w])]) ]_vars
    /\ [][ \A w \in Workers :
             (Filters(w) /\ EndsWithCR(Head(wtoks[w]))) => Skips(w) ]_vars

C16_Witness ==
    /\ pc = "done"
    /\ Len(txt_files) = 1
    /\ txt_files[1].bytes = DocC
    /\ words = (<< "u", "p" >> :> 1) @@ (<< "a", "n" >> :> 1)

RECURSIVE Collapse(_)
\* the line with every run of spaces made one space
Collapse(s) ==
    IF Len(s) < 2 THEN s
    ELSE IF s[1] = " " /\ s[2] = " " THEN Collapse(Tail(s))
    ELSE << s[1] >> \o Collapse(Tail(s))

\* number of tokens of toks the filter accepts as w
AcceptedIn(toks, w) ==
    Cardinality({ j \in 1..Len(toks) : WordFilter(toks[j]) = Accept(w) })

AcceptedWordsIn(toks) ==
    { WordFilter(toks[j]).word :
        j \in { i \in 1..Len(toks) : WordFilter(toks[i]).status = "accept" } }

SameCounts(a, b) ==
    \A w \in AcceptedWordsIn(a) \cup AcceptedWordsIn(b) :
      AcceptedIn(a, w) = AcceptedIn(b, w)

\* C17: a line is split on the space character and on nothing else (k
\* spaces in a row give k - 1 empty tokens, a tab stays inside its token);
\* an empty token is skipped; the line counts what it would count with
\* every run of spaces made one space
C17_SplitOnSpace ==
    /\ [][ \A w \in Workers :
             Takes(w) =>
               /\ SplitsOn(wtoks'[w], TakenLine(w), " ")
               /\ SameCounts(wtoks'[w], split(Collapse(TakenLine(w)), " "))
         ]_vars
    /\ [][ \A w \in Workers :
             (Filters(w) /\ Head(wtoks[w]) = << >>) => Skips(w) ]_vars

C17_Witness ==
    \E w \in Workers :
      /\ wpc[w] = "words"
      /\ wtoks[w] = << << "u", "p" >>, << >>, << "a", "n", "\r" >> >>


\* the files whose lines have been given to the workers
Started == { f \in 1..Len(txt_files) : f < idx \/ f \in DOMAIN lines }

RECURSIVE AcceptedOf(_)
\* the words the filter makes of the tokens it accepts, in order
AcceptedOf(toks) ==
    IF toks = << >> THEN << >>
    ELSE LET r == WordFilter(Head(toks)) IN
         (IF r.status = "accept" THEN << r.word >> ELSE << >>)
           \o AcceptedOf(Tail(toks))

RECURSIVE AcceptedOfLines(_)
AcceptedOfLines(ls) ==
    IF ls = << >> THEN << >>
    ELSE AcceptedOf(split(Head(ls), " ")) \o AcceptedOfLines(Tail(ls))

RECURSIVE StartedWords(_)
\* accepted words of the files up to n that were given to the workers
StartedWords(n) ==
    IF n = 0 THEN << >>
    ELSE StartedWords(n - 1)
           \o (IF n \in Started
                 THEN AcceptedOfLines(
                        split(from_utf8_lossy(txt_files[n].bytes), "\n"))
                 ELSE << >>)

RECURSIVE WaitingWords(_)
\* accepted words of the lines no worker has taken yet
WaitingWords(n) ==
    IF n = 0 THEN << >>
    ELSE WaitingWords(n - 1)
           \o (IF n \in DOMAIN lines THEN AcceptedOfLines(lines[n])
                                     ELSE << >>)

RECURSIVE HeldWords(_)
\* accepted words of the lines the workers hold, the word a worker is
\* counting included
HeldWords(n) ==
    IF n = 0 THEN << >>
    ELSE HeldWords(n - 1)
           \o (IF Incrementing(n) THEN << wword[n] >> ELSE << >>)
           \o AcceptedOf(wtoks[n])

CountIn(seq, k) == Cardinality({ i \in 1..Len(seq) : seq[i] = k })

\* every occurrence of the started files is in exactly one place: counted,
\* held by one worker, or waiting in the iterator
EachLineOnce ==
    LET started == StartedWords(Len(txt_files))
        waiting == WaitingWords(Len(txt_files))
        held == HeldWords(NumWorkers)
    IN  \A k \in Range(started) \cup DOMAIN words :
          Get(words, k) + CountIn(held, k) + CountIn(waiting, k)
            = CountIn(started, k)

\* C18: a line leaves the iterator when one worker takes it, and no other
\* way; its occurrences are counted once: with the lines still waiting and
\* the lines held they make up the occurrences of the files started
C18_EachLineOnce ==
    /\ [] EachLineOnce
    /\ [][ \A f \in DOMAIN lines \cap DOMAIN lines' :
             lines'[f] # lines[f] =>
               /\ lines[f] # << >>
               /\ lines'[f] = Tail(lines[f])
               /\ Cardinality({ w \in Workers : Takes(w) }) = 1
               /\ \A w \in Workers :
                    Takes(w) => /\ wfile'[w] = f
                                /\ wtoks'[w] = split(Head(lines[f]), " ")
         ]_vars
    /\ [][ \A w \in Workers :
             Takes(w) => /\ wfile'[w] \in DOMAIN lines
                         /\ lines[wfile'[w]] # << >>
                         /\ lines'[wfile'[w]] = Tail(lines[wfile'[w]]) ]_vars
    /\ [][ \A f \in DOMAIN lines \ DOMAIN lines' : lines[f] = << >> ]_vars

C18_Witness ==
    \E w1, w2 \in Workers :
      /\ w1 # w2
      /\ wpc[w1] = "words"
      /\ wpc[w2] = "words"
      /\ wfile[w1] = wfile[w2]
      /\ wtoks[w1] # wtoks[w2]
      /\ lines[wfile[w1]] = << >>


IOError ==
    error \in { "FileOpenFailure", "FileReadFailure", "OutputWriteFailure" }

\* the run is over: every fork-join is complete, the progress counter is at
\* the number of files and every entry has gone to the writer
Completed ==
    /\ pc = "done"
    /\ error = "none"
    /\ DOMAIN lines = { }
    /\ \A w \in Workers : wpc[w] = "idle"
    /\ \A s \in Shards : locks[s] = 0
    /\ pos = Len(txt_files)
    /\ outCreated
    /\ emitted = DOMAIN words
    /\ wtrBuf = << >>

\* the run is over, one way or the other
Ended == Completed \/ (Failed /\ error # "none")

\* C19: under fair scheduling every run ends, and stays ended: every
\* fork-join is then complete; a run that found its files and does not end
\* on an I/O error ends complete, with the progress counter at the number
\* of files and the output written, where a last flush that succeeds
\* leaves a row for every entry
C19_Terminates ==
    /\ <>[] Ended
    /\ [] ((Failed /\ txt_files # << >>) => IOError)
    /\ [][ (pc = "drop" /\ outRows' = outRows \o wtrBuf)
             => Range(outRows') = RowsOf(words) ]_vars

C19_Witness ==
    /\ Completed
    /\ Len(txt_files) = 2
    /\ Cardinality(DOMAIN words) >= 2
    /\ Range(outRows) = RowsOf(words)


\* longest file content of the runs over every short content
MaxBytes == 3

\* the bytes those contents are made of
ContentBytes == { "a", "b", "X", "xC3", "xA9", ",", " " }

Contents == UNION { [ 1..n -> ContentBytes ] : n \in 0..MaxBytes }

\* a run that has read its one file, whatever the content
InitContents ==
    /\ inputExists = TRUE
    /\ buf \in Contents
    /\ dir = << [ name |-> NameA, bytes |-> buf ] >>
    /\ pc = "split"
    /\ error = "none"
    /\ txt_files = walk(dir)
    /\ idx = 1
    /\ openCalls = { 1 }
    /\ lines = EmptyMap
    /\ tableCreated = TRUE
    /\ words = EmptyMap
    /\ locks = [ s \in Shards |-> 0 ]
    /\ pos = 0
    /\ wpc = [ w \in Workers |-> "idle" ]
    /\ wfile = [ w \in Workers |-> 0 ]
    /\ wtoks = [ w \in Workers |-> << >> ]
    /\ wword = [ w \in Workers |-> << >> ]
    /\ wtmp = [ w \in Workers |-> 0 ]
    /\ incs = EmptyMap
    /\ tableReads = 0
    /\ tableIters = 0
    /\ word_count = 0
    /\ snapshot = EmptyMap
    /\ emitted = { }
    /\ wtrBuf = << >>
    /\ outCreated = FALSE
    /\ outRows = << >>

\* the fork and the steps of the workers
NextContents ==
    \/ ForEach
    \/ \E w \in Workers : NextLine(w)
    \/ \E w \in Workers : NextWord(w)
    \/ \E w \in Workers : Entry(w)
    \/ \E w \in Workers : OrInsert(w)
    \/ \E w \in Workers : Load(w)
    \/ \E w \in Workers : Store(w)

SpecContents == InitContents /\ [][NextContents]_vars

\* C20: the filter panics for no token: a token that gets to word[1..] has
\* a byte length of 2 or more and only ASCII characters, and a token that
\* is rejected is skipped and nothing else happens
C20_FilterNeverPanics ==
    /\ [] (error # "WorkerPanic" /\ pc # "panicked")
    /\ [][ \A w \in Workers :
             Filters(w) =>
               LET token == Head(wtoks[w])
                   word == trim_matches(token)
               IN  /\ WordFilter(token).status # "panic"
                   /\ pc' = pc
                   /\ error' = error
                   /\ ( /\ ByteLen(word) >= 2
                        /\ \A i \in 1..Len(word) : is_ascii_alphabetic(word[i]) )
                        => \A i \in 1..Len(word) : IsAsciiChar(word[i])
                   /\ WordFilter(token) = Reject => Skips(w)
         ]_vars

C20_Witness ==
    /\ txt_files[1].bytes = << "xC3", "xA9", "xC3" >>
    /\ pc = "for_each"
    /\ lines[1] = << >>
    /\ \A w \in Workers : wpc[w] = "idle"
    /\ error = "none"
    /\ words = EmptyMap

====
